---------------------------- MODULE Spec2Model ----------------------------
(***************************************************************************)
(* Model of the Obsidian "Reading Mode Highlighter" plugin (src/main.ts).  *)
(*                                                                         *)
(* Strings are sequences of one-character strings.  The JavaScript string  *)
(* and RegExp primitives the plugin calls are modelled by what they do:    *)
(* a global ("g") RegExp object carries its lastIndex between calls, a     *)
(* string search pattern replaces the first occurrence only, and the       *)
(* replacement string of String.prototype.replace is expanded ($$, $&,     *)
(* $`, $').                                                                 *)
(***************************************************************************)
EXTENDS Integers, Sequences, FiniteSets, TLC

(***************************************************************************)
(* Bounds of the model.                                                    *)
(***************************************************************************)
\* Number of toggle invocations in one session.
MaxToggles == 2
\* Number of failures of the environment in one session: no file in the
\* view, a DOM traversal that throws, a rejected vault.read or vault.modify.
MaxFaults == 1
\* Number of periodic cache sweeps in one session.
MaxSweeps == 1
\* Buffer-mode toggles of a session.
MaxEdits == 2

(***************************************************************************)
(* JavaScript string primitives.                                           *)
(***************************************************************************)
Min(S) == CHOOSE x \in S : \A y \in S : x <= y

\* str.substring(from, to), 0-based, to exclusive, arguments clamped.
Substring(str, from, to) ==
    LET f == IF from < 0 THEN 0 ELSE IF from > Len(str) THEN Len(str) ELSE from
        t == IF to < 0 THEN 0 ELSE IF to > Len(str) THEN Len(str) ELSE to
    IN  IF f <= t THEN SubSeq(str, f + 1, t) ELSE SubSeq(str, t + 1, f)

\* str.indexOf(search, from): 0-based index of the first occurrence, or -1.
IndexOfFrom(str, search, from) ==
    LET hits == { i \in from..(Len(str) - Len(search)) :
                      SubSeq(str, i + 1, i + Len(search)) = search }
    IN  IF hits = {} THEN 0 - 1 ELSE Min(hits)

IndexOf(str, search) == IndexOfFrom(str, search, 0)

\* str.includes(search)
Includes(str, search) == IndexOf(str, search) >= 0

\* str.startsWith(p), str.endsWith(p)
StartsWith(str, p) == Len(str) >= Len(p) /\ SubSeq(str, 1, Len(p)) = p
EndsWith(str, p) ==
    Len(str) >= Len(p) /\ SubSeq(str, Len(str) - Len(p) + 1, Len(str)) = p

\* str.slice(2, -2)
Slice2(str) ==
    IF Len(str) - 2 > 2 THEN SubSeq(str, 3, Len(str) - 2) ELSE << >>

\* White space removed by String.prototype.trim.
WhiteSpace == {" ", "\n", "\t", "\r"}

RECURSIVE TrimStart(_)
TrimStart(str) ==
    IF str # << >> /\ Head(str) \in WhiteSpace THEN TrimStart(Tail(str)) ELSE str

RECURSIVE TrimEnd(_)
TrimEnd(str) ==
    IF str # << >> /\ str[Len(str)] \in WhiteSpace
    THEN TrimEnd(SubSeq(str, 1, Len(str) - 1))
    ELSE str

\* str.trim()
Trim(str) == TrimEnd(TrimStart(str))

\* str.split('\n'): the sequence of lines (always at least one).
RECURSIVE Split(_)
Split(str) ==
    LET nl == IndexOf(str, <<"\n">>)
    IN  IF nl < 0 THEN <<str>>
        ELSE <<SubSeq(str, 1, nl)>> \o Split(SubSeq(str, nl + 2, Len(str)))

\* lines.join('\n')
RECURSIVE Join(_)
Join(lines) ==
    IF Len(lines) = 0 THEN << >>
    ELSE IF Len(lines) = 1 THEN lines[1]
    ELSE lines[1] \o <<"\n">> \o Join(Tail(lines))

\* GetSubstitution of ECMAScript for a pattern without capture groups that
\* the replacement refers to: $$ is "$", $& the matched text, $` the text
\* before the match, $' the text after it; any other "$" stands for itself.
RECURSIVE GetSubstitution(_, _, _, _)
GetSubstitution(matched, str, position, replacement) ==
    IF replacement = << >> THEN << >>
    ELSE IF Head(replacement) = "$" /\ Len(replacement) >= 2
    THEN LET c    == replacement[2]
             rest == SubSeq(replacement, 3, Len(replacement))
         IN  IF c = "$"
             THEN <<"$">> \o GetSubstitution(matched, str, position, rest)
             ELSE IF c = "&"
             THEN matched \o GetSubstitution(matched, str, position, rest)
             ELSE IF c = "`"
             THEN SubSeq(str, 1, position)
                      \o GetSubstitution(matched, str, position, rest)
             ELSE IF c = "'"
             THEN SubSeq(str, position + Len(matched) + 1, Len(str))
                      \o GetSubstitution(matched, str, position, rest)
             ELSE <<"$">> \o GetSubstitution(matched, str, position,
                                               Tail(replacement))
    ELSE <<Head(replacement)>>
             \o GetSubstitution(matched, str, position, Tail(replacement))

\* str.replace(search, replacement) with a string search pattern: the first
\* occurrence only, the replacement expanded by GetSubstitution.
ReplaceString(str, search, replacement) ==
    LET pos == IndexOf(str, search)
    IN  IF pos < 0 THEN str
        ELSE SubSeq(str, 1, pos)
                 \o GetSubstitution(search, str, pos, replacement)
                 \o SubSeq(str, pos + Len(search) + 1, Len(str))

(***************************************************************************)
(* RegExp: the pattern language the plugin's patterns can contain.  A      *)
(* backslash makes the next character a literal; an unescaped "." matches  *)
(* any character but a line terminator, "^" and "$" assert the start and   *)
(* the end of the input, "(" x "|" y ")" is a capturing group of two       *)
(* alternatives tried in order; every other character matches itself.      *)
(***************************************************************************)
\* Index of the first unescaped occurrence of ch in pat at or after k, or 0.
RECURSIVE Unescaped(_, _, _)
Unescaped(pat, ch, k) ==
    IF k > Len(pat) THEN 0
    ELSE IF pat[k] = "\\" THEN Unescaped(pat, ch, k + 2)
    ELSE IF pat[k] = ch THEN k
    ELSE Unescaped(pat, ch, k + 1)

\* new RegExp(pattern, 'g'): the pattern split at its capturing group.
NewRegExp(pattern) ==
    LET lp == Unescaped(pattern, "(", 1)
    IN  IF lp = 0
        THEN [pre |-> pattern, alts |-> << >>, post |-> << >>]
        ELSE LET rp  == Unescaped(pattern, ")", lp + 1)
                 bar == Unescaped(SubSeq(pattern, 1, rp - 1), "|", lp + 1)
             IN  [pre  |-> SubSeq(pattern, 1, lp - 1),
                  alts |-> IF bar = 0
                           THEN <<SubSeq(pattern, lp + 1, rp - 1)>>
                           ELSE <<SubSeq(pattern, lp + 1, bar - 1),
                                  SubSeq(pattern, bar + 1, rp - 1)>>,
                  post |-> SubSeq(pattern, rp + 1, Len(pattern))]

\* A group-free pattern matched against str from index j (0-based): the
\* index after the match, or -1.
RECURSIVE MatchSeq(_, _, _)
MatchSeq(pat, str, j) ==
    IF pat = << >> THEN j
    ELSE IF Head(pat) = "\\"
    THEN IF Len(pat) >= 2 /\ j < Len(str) /\ str[j + 1] = pat[2]
         THEN MatchSeq(SubSeq(pat, 3, Len(pat)), str, j + 1)
         ELSE 0 - 1
    ELSE IF Head(pat) = "."
    THEN IF j < Len(str) /\ str[j + 1] \notin {"\n", "\r"}
         THEN MatchSeq(Tail(pat), str, j + 1)
         ELSE 0 - 1
    ELSE IF Head(pat) = "$"
    THEN IF j = Len(str) THEN MatchSeq(Tail(pat), str, j) ELSE 0 - 1
    ELSE IF Head(pat) = "^"
    THEN IF j = 0 THEN MatchSeq(Tail(pat), str, j) ELSE 0 - 1
    ELSE IF j < Len(str) /\ str[j + 1] = Head(pat)
         THEN MatchSeq(Tail(pat), str, j + 1)
         ELSE 0 - 1

NoMatch == [index |-> 0 - 1, end |-> 0 - 1, group |-> << >>]

\* One alternative of the group, matched from e0, then the rest of the
\* pattern; j is where the whole match starts.
MatchAlt(re, alt, str, j, e0) ==
    LET Rest(e1) ==
            LET Result(e2) ==
                    IF e2 < 0 THEN NoMatch
                    ELSE [index |-> j, end |-> e2,
                          group |-> SubSeq(str, e0 + 1, e1)]
            IN  Result(IF e1 < 0 THEN 0 - 1 ELSE MatchSeq(re.post, str, e1))
    IN  Rest(MatchSeq(alt, str, e0))

\* The regular expression matched at index j exactly: the alternatives of
\* the group are tried in order.
MatchAt(re, str, j) ==
    LET After(e0) ==
            IF e0 < 0 THEN NoMatch
            ELSE IF Len(re.alts) = 0
            THEN [index |-> j, end |-> e0, group |-> << >>]
            ELSE LET Second(m1) ==
                         IF m1.end >= 0 \/ Len(re.alts) = 1 THEN m1
                         ELSE MatchAlt(re, re.alts[2], str, j, e0)
                 IN  Second(MatchAlt(re, re.alts[1], str, j, e0))
    IN  After(MatchSeq(re.pre, str, j))

\* RegExpBuiltinExec: the leftmost match at or after lastIndex.
RegExpExec(re, str, lastIndex) ==
    LET First(hits) ==
            IF hits = {} THEN NoMatch ELSE MatchAt(re, str, Min(hits))
    IN  First({ j \in lastIndex..Len(str) : MatchAt(re, str, j).end >= 0 })

\* The matches str.match(regex) and str.replace(regex, ..) walk through for
\* a global regex: from index 0, each search resuming after the last match
\* (one further on after an empty match).
RECURSIVE AllMatches(_, _, _)
AllMatches(re, str, from) ==
    LET More(m) ==
            IF m.end < 0 THEN << >>
            ELSE <<m>> \o AllMatches(re, str,
                              IF m.end = m.index THEN m.end + 1 ELSE m.end)
    IN  More(RegExpExec(re, str, from))

\* str.replace(regex, replacement) for a global regex: every match replaced.
RECURSIVE ReplaceMatches(_, _, _, _)
ReplaceMatches(str, ms, from, replacement) ==
    IF ms = << >> THEN SubSeq(str, from + 1, Len(str))
    ELSE SubSeq(str, from + 1, Head(ms).index)
             \o GetSubstitution(SubSeq(str, Head(ms).index + 1, Head(ms).end),
                                str, Head(ms).index, replacement)
             \o ReplaceMatches(str, Tail(ms), Head(ms).end, replacement)

ReplaceRegex(str, re, replacement) ==
    ReplaceMatches(str, AllMatches(re, str, 0), 0, replacement)

(***************************************************************************)
(* RegexCache (src/main.ts 19-48).  Both maps are keyed by strings; a      *)
(* cached RegExp is one object shared by all its users, so its lastIndex   *)
(* is part of the cache's state.  c is the record of the four static maps  *)
(* (regex, escape, context, detection).                                    *)
(***************************************************************************)
\* The characters of the class [.*+?^${}()|[\]\\].
MetaChars == {".", "*", "+", "?", "^", "$", "{", "}", "(", ")", "|", "[", "]", "\\"}

\* text.replace(/[.*+?^${}()|[\]\\]/g, '\\$&')
RECURSIVE Escape(_)
Escape(text) ==
    IF text = << >> THEN << >>
    ELSE IF Head(text) \in MetaChars
    THEN <<"\\", Head(text)>> \o Escape(Tail(text))
    ELSE <<Head(text)>> \o Escape(Tail(text))

\* RegexCache.getEscapedText: the value returned.
getEscapedText(c, text) ==
    IF text \in DOMAIN c.escape THEN c.escape[text] ELSE Escape(text)

\* RegexCache.getEscapedText: the caches after the calls for texts.
Escaped(c, texts) ==
    [c EXCEPT !.escape = [t \in DOMAIN @ \cup texts |->
                             IF t \in DOMAIN @ THEN @[t] ELSE Escape(t)]]

\* The key `${pattern}:${flags}` with the default flags 'g'.
RegexKey(pattern) == pattern \o <<":", "g">>

\* RegexCache.getRegex: the caches after the call.
getRegex(c, pattern) ==
    IF RegexKey(pattern) \in DOMAIN c.regex THEN c
    ELSE [c EXCEPT !.regex = (RegexKey(pattern) :>
                                 [source |-> pattern, lastIndex |-> 0]) @@ @]

\* regex.exec(str) / regex.test(str) on the cached global regex for pattern:
\* the match m found from its lastIndex, and the caches c after the call:
\* lastIndex is the end of the match, or 0 when there is none.
Exec(c, pattern, str) ==
    LET Found(m) ==
            [m |-> m,
             c |-> [c EXCEPT !.regex[RegexKey(pattern)].lastIndex =
                                 IF m.end < 0 THEN 0 ELSE m.end]]
    IN  Found(RegExpExec(NewRegExp(c.regex[RegexKey(pattern)].source), str,
                         c.regex[RegexKey(pattern)].lastIndex))

\* str.match(regex) and str.replace(regex, ..) on a cached global regex start
\* at index 0 and leave lastIndex 0: the caches after the call.
Scanned(c, pattern) == [c EXCEPT !.regex[RegexKey(pattern)].lastIndex = 0]

\* str.match(regex): the number of matches (0 stands for null).
MatchCount(c, pattern, str) ==
    Len(AllMatches(NewRegExp(c.regex[RegexKey(pattern)].source), str, 0))

(***************************************************************************)
(* PositionInfo and ContextProcessor (src/main.ts 5-9, 51-110).            *)
(***************************************************************************)
\* lineNumber of a PositionInfo with no line number (undefined).
NoLine == 0 - 1

\* const contextLength = 50
contextLength == 50

\* "0".."9" as strings, for keys built from numbers.
Digits == <<"0", "1", "2", "3", "4", "5", "6", "7", "8", "9">>

RECURSIVE NumStr(_)
NumStr(n) == IF n < 10 THEN <<Digits[n + 1]>>
             ELSE NumStr(n \div 10) \o <<Digits[(n % 10) + 1]>>

\* `${selectedText}:${range.startOffset}:${range.endOffset}`
ContextKey(selectedText, range) ==
    selectedText \o <<":">> \o NumStr(range.startOffset)
                 \o <<":">> \o NumStr(range.endOffset)

\* The PositionInfo that processContext computes from the range.
ComputeContext(range) ==
    [contextBefore |->
         Substring(range.textContent,
                   IF range.startOffset - contextLength > 0
                   THEN range.startOffset - contextLength ELSE 0,
                   range.startOffset),
     contextAfter |->
         Substring(range.textContent, range.endOffset,
                   IF range.endOffset + contextLength < Len(range.textContent)
                   THEN range.endOffset + contextLength
                   ELSE Len(range.textContent)),
     lineNumber |-> range.dataLine]

\* ContextProcessor.processContext: the value returned.
processContext(c, range, selectedText) ==
    IF ContextKey(selectedText, range) \in DOMAIN c.context
    THEN c.context[ContextKey(selectedText, range)]
    ELSE ComputeContext(range)

\* ContextProcessor.processContext: the caches after the call.
ContextCached(c, range, selectedText) ==
    IF ContextKey(selectedText, range) \in DOMAIN c.context THEN c
    ELSE [c EXCEPT !.context =
             (ContextKey(selectedText, range) :> ComputeContext(range)) @@ @]

(***************************************************************************)
(* HighlightDetector.isHighlighted (src/main.ts 113-157).                  *)
(***************************************************************************)
\* `==${selectedText}==`
Highlighted(selectedText) == <<"=", "=">> \o selectedText \o <<"=", "=">>

\* `${selectedText}:${positionInfo.contextBefore}:${positionInfo.contextAfter}`
DetectionKey(selectedText, positionInfo) ==
    selectedText \o <<":">> \o positionInfo.contextBefore
                 \o <<":">> \o positionInfo.contextAfter

\* `${escapedBefore}${escapedHighlighted}${escapedAfter}`
ExactPattern(c, selectedText, positionInfo) ==
    getEscapedText(c, positionInfo.contextBefore)
        \o getEscapedText(c, Highlighted(selectedText))
        \o getEscapedText(c, positionInfo.contextAfter)

\* The texts the exact pattern escapes.
ExactTexts(selectedText, positionInfo) ==
    {positionInfo.contextBefore, Highlighted(selectedText),
     positionInfo.contextAfter}

\* Strategy 2 of the detection and of the removal, and step 2 of the
\* addition: the line the line number names, when there is one in range.
LineInRange(content, positionInfo) ==
    /\ positionInfo.lineNumber # NoLine
    /\ positionInfo.lineNumber >= 0
    /\ positionInfo.lineNumber < Len(Split(content))

LineAt(content, positionInfo) == Split(content)[positionInfo.lineNumber + 1]

\* Lines 138-151: x is the outcome of exactRegex.test(content).
Detected(content, selectedText, positionInfo, x) ==
    LET Put(value) ==
            [value  |-> value,
             caches |-> [x.c EXCEPT !.detection =
                            (DetectionKey(selectedText, positionInfo)
                                 :> value) @@ @]]
    IN  Put(IF x.m.end >= 0 THEN TRUE
            ELSE IF LineInRange(content, positionInfo)
            THEN Includes(LineAt(content, positionInfo),
                          Highlighted(selectedText))
            ELSE FALSE)

\* Lines 127-136: a detection cache miss, c the caches after the escapes.
DetectMiss(c, content, selectedText, positionInfo, exactPattern) ==
    Detected(content, selectedText, positionInfo,
             Exec(getRegex(c, exactPattern), exactPattern, content))

\* HighlightDetector.isHighlighted: [value, caches].
isHighlighted(c, content, selectedText, positionInfo) ==
    IF DetectionKey(selectedText, positionInfo) \in DOMAIN c.detection
    THEN [value  |-> c.detection[DetectionKey(selectedText, positionInfo)],
          caches |-> c]
    ELSE DetectMiss(Escaped(c, ExactTexts(selectedText, positionInfo)),
                    content, selectedText, positionInfo,
                    ExactPattern(c, selectedText, positionInfo))

(***************************************************************************)
(* ToggleResult and the toggle engine (src/main.ts 11-16, 270-403).        *)
(***************************************************************************)
\* A missing newContent of a ToggleResult.
Absent == << >>

Success(newContent, action) ==
    [success |-> TRUE, newContent |-> newContent, action |-> action,
     error |-> "none"]

Failure(error) ==
    [success |-> FALSE, newContent |-> Absent, action |-> "none",
     error |-> error]

\* `${escapedBefore}(${escapedText}|${escapedHighlighted})${escapedAfter}`
ContextPattern(c, selectedText, positionInfo) ==
    getEscapedText(c, positionInfo.contextBefore)
        \o <<"(">> \o getEscapedText(c, selectedText)
        \o <<"|">> \o getEscapedText(c, Highlighted(selectedText))
        \o <<")">> \o getEscapedText(c, positionInfo.contextAfter)

\* Lines 301-311: step 1 of addHighlightOptimized, given the match of the
\* context regex.
AddByContext(content, selectedText, positionInfo, match) ==
    Success(ReplaceString(content, SubSeq(content, match.index + 1, match.end),
                IF match.group = Highlighted(selectedText)
                THEN positionInfo.contextBefore \o selectedText
                         \o positionInfo.contextAfter
                ELSE positionInfo.contextBefore \o Highlighted(selectedText)
                         \o positionInfo.contextAfter),
            IF match.group = Highlighted(selectedText)
            THEN "removed" ELSE "added")

\* The document with line lineNumber replaced by newLine: lines.join('\n').
WithLine(content, positionInfo, newLine) ==
    Join([Split(content) EXCEPT ![positionInfo.lineNumber + 1] = newLine])

\* Lines 314-321: step 2 of addHighlightOptimized applies.
AddLineApplies(content, selectedText, positionInfo) ==
    /\ LineInRange(content, positionInfo)
    /\ Includes(LineAt(content, positionInfo), selectedText)

\* Lines 322-327
AddByLine(content, selectedText, positionInfo) ==
    Success(WithLine(content, positionInfo,
                     ReplaceString(LineAt(content, positionInfo), selectedText,
                                   Highlighted(selectedText))),
            "added")

\* Lines 336-347: step 3 of addHighlightOptimized, with both global regexes
\* in the caches c.
AddGlobal(c, content, selectedText, escapedText, escapedHighlighted) ==
    [result |->
         IF /\ MatchCount(c, escapedText, content) = 1
            /\ MatchCount(c, escapedHighlighted, content) = 0
         THEN Success(ReplaceString(content, selectedText,
                                    Highlighted(selectedText)), "added")
         ELSE Failure("Multiple instances found. Please select text with unique context."),
     caches |-> Scanned(Scanned(c, escapedText), escapedHighlighted),
     via |-> "global"]

\* Lines 300-347: x is the outcome of contextRegex.exec(content).  via names
\* the step that returned: the context match, the line, or the global step.
AddSteps(content, selectedText, positionInfo, escapedText, escapedHighlighted, x) ==
    IF x.m.end >= 0
    THEN [result |-> AddByContext(content, selectedText, positionInfo, x.m),
          caches |-> x.c, via |-> "context"]
    ELSE IF AddLineApplies(content, selectedText, positionInfo)
    THEN [result |-> AddByLine(content, selectedText, positionInfo),
          caches |-> x.c, via |-> "line"]
    ELSE AddGlobal(getRegex(getRegex(x.c, escapedText), escapedHighlighted),
                   content, selectedText, escapedText, escapedHighlighted)

\* Lines 297-300: c the caches after the escapes.
AddMatch(c, content, selectedText, positionInfo, escapedText, escapedHighlighted, contextPattern) ==
    AddSteps(content, selectedText, positionInfo, escapedText,
             escapedHighlighted,
             Exec(getRegex(c, contextPattern), contextPattern, content))

\* addHighlightOptimized: [result, caches].
addHighlightOptimized(c, content, selectedText, positionInfo) ==
    AddMatch(Escaped(c, ExactTexts(selectedText, positionInfo)
                            \cup {selectedText}),
             content, selectedText, positionInfo,
             getEscapedText(c, selectedText),
             getEscapedText(c, Highlighted(selectedText)),
             ContextPattern(c, selectedText, positionInfo))

\* Lines 367-369: strategy 1 of removeHighlightOptimized:
\* content.replace(exactRegex, ..) with the global regex.
RemoveByContext(c, exactPattern, content, selectedText, positionInfo) ==
    Success(ReplaceRegex(content,
                         NewRegExp(c.regex[RegexKey(exactPattern)].source),
                         positionInfo.contextBefore \o selectedText
                             \o positionInfo.contextAfter),
            "removed")

\* Lines 373-379: strategy 2 of removeHighlightOptimized applies.
RemoveLineApplies(content, selectedText, positionInfo) ==
    /\ LineInRange(content, positionInfo)
    /\ Includes(LineAt(content, positionInfo), Highlighted(selectedText))

\* Lines 380-385
RemoveByLine(content, selectedText, positionInfo) ==
    Success(WithLine(content, positionInfo,
                     ReplaceString(LineAt(content, positionInfo),
                                   Highlighted(selectedText), selectedText)),
            "removed")

\* Lines 391-402: strategy 3 of removeHighlightOptimized, with the global
\* regex in the caches c.
RemoveGlobal(c, content, selectedText, escapedHighlighted) ==
    [result |->
         IF MatchCount(c, escapedHighlighted, content) = 1
         THEN Success(ReplaceString(content, Highlighted(selectedText),
                                    selectedText), "removed")
         ELSE Failure("Could not safely remove highlight. Multiple instances found."),
     caches |-> Scanned(c, escapedHighlighted),
     via |-> "global"]

\* Lines 366-402: x is the outcome of exactRegex.test(content).
RemoveSteps(content, selectedText, positionInfo, escapedHighlighted, exactPattern, x) ==
    IF x.m.end >= 0
    THEN [result |-> RemoveByContext(x.c, exactPattern, content, selectedText,
                                     positionInfo),
          caches |-> Scanned(x.c, exactPattern), via |-> "context"]
    ELSE IF RemoveLineApplies(content, selectedText, positionInfo)
    THEN [result |-> RemoveByLine(content, selectedText, positionInfo),
          caches |-> x.c, via |-> "line"]
    ELSE RemoveGlobal(getRegex(x.c, escapedHighlighted), content,
                      selectedText, escapedHighlighted)

\* Lines 363-366: c the caches after the escapes.
RemoveMatch(c, content, selectedText, positionInfo, escapedHighlighted, exactPattern) ==
    RemoveSteps(content, selectedText, positionInfo, escapedHighlighted,
                exactPattern,
                Exec(getRegex(c, exactPattern), exactPattern, content))

\* removeHighlightOptimized: [result, caches].
removeHighlightOptimized(c, content, selectedText, positionInfo) ==
    RemoveMatch(Escaped(c, ExactTexts(selectedText, positionInfo)),
                content, selectedText, positionInfo,
                getEscapedText(c, Highlighted(selectedText)),
                ExactPattern(c, selectedText, positionInfo))

\* processHighlightToggle: [result, caches].
processHighlightToggle(c, content, selectedText, positionInfo, highlighted) ==
    IF highlighted
    THEN removeHighlightOptimized(c, content, selectedText, positionInfo)
    ELSE addHighlightOptimized(c, content, selectedText, positionInfo)

\* Lines 252-253: the toggle with the caches the detection d left.
Toggled(content, selectedText, positionInfo, d) ==
    LET Out(r) == [result |-> r.result, caches |-> r.caches,
                   highlighted |-> d.value, via |-> r.via]
    IN  Out(processHighlightToggle(d.caches, content, selectedText,
                                   positionInfo, d.value))

\* Lines 247-252 of handleReadingModeOptimized: the detection, then the
\* toggle: [result, caches, highlighted, via].
ComputeToggle(c, content, selectedText, positionInfo) ==
    Toggled(content, selectedText, positionInfo,
            isHighlighted(c, content, selectedText, positionInfo))

(***************************************************************************)
(* The documents and the rendered selections of the model.                 *)
(***************************************************************************)
\* Documents the vault's file holds when the plugin is loaded.
InitDocs ==
    { <<"b", "a", "b">>,
      <<"a", "b", "\n", "a">>,
      <<"=", "=", "a", "=", "=", "b", "\n", "a">>,
      <<"=", "=", "a", "=", "=", "=", "=", "a", "=", "=">>,
      <<"$", "$">> }

\* A range: the text of the rendered text node, the offsets of the selection
\* in it, and the data-line attribute of an ancestor (NoLine: none has one).
Range(textContent, startOffset, endOffset, dataLine) ==
    [textContent |-> textContent, startOffset |-> startOffset,
     endOffset |-> endOffset, dataLine |-> dataLine]

\* The ranges selection.getRangeAt(0) can return.
Ranges ==
    { Range(<<"a">>, 0, 1, NoLine),
      Range(<<"a">>, 0, 1, 0),
      Range(<<"a">>, 0, 1, 1),
      Range(<<"a", "b">>, 0, 1, NoLine),
      Range(<<"b", "a", "b">>, 1, 2, NoLine),
      Range(<<"b", "a", "b">>, 1, 2, 1),
      Range(<<"$", "$">>, 0, 2, NoLine),
      Range(<<" ">>, 0, 1, NoLine) }

\* selection.rangeCount is 0: there is no range.
NoRange == [textContent |-> << >>, startOffset |-> 0, endOffset |-> 0,
            dataLine |-> NoLine]

\* selection.toString() of a selection inside one text node.
SelectionText(range) ==
    Substring(range.textContent, range.startOffset, range.endOffset)

NoPosition == [contextBefore |-> << >>, contextAfter |-> << >>,
               lineNumber |-> NoLine]

(***************************************************************************)
(* State.                                                                  *)
(***************************************************************************)
VARIABLES
    content,    \* the text of the file in the vault
    caches,     \* the four static maps: regex, escape, context, detection
    loaded,     \* the plugin is loaded
    invs,       \* the rendered-mode invocations of the session, in order
    faults,     \* the failures of the environment so far
    sweeps,     \* the periodic sweeps so far
    buffer,     \* the text of the editor's buffer
    edit        \* the last buffer-mode invocation of the session

vars == <<content, caches, loaded, invs, faults, sweeps, buffer, edit>>

EmptyMap == [x \in {} |-> x]

EmptyCaches == [regex |-> EmptyMap, escape |-> EmptyMap,
                context |-> EmptyMap, detection |-> EmptyMap]

\* An invocation that ended before it read the file.
Ended(outcome, notice) ==
    [pc |-> "done", outcome |-> outcome, notice |-> notice,
     range |-> NoRange, selectedText |-> << >>, positionInfo |-> NoPosition,
     read |-> Absent, highlighted |-> FALSE, result |-> Failure("none"),
     reads |-> 0, writes |-> 0, rerendered |-> FALSE, epoch |-> 0,
     via |-> "none"]

\* No buffer-mode invocation has been made.
NoEdit == [n |-> 0, from |-> 0, to |-> 0, before |-> << >>, after |-> << >>,
           notice |-> "none", branch |-> "none"]

Init ==
    /\ content \in InitDocs
    /\ caches = EmptyCaches
    /\ loaded = TRUE
    /\ invs = << >>
    /\ faults = 0
    /\ sweeps = 0
    /\ buffer = << >>
    /\ edit = NoEdit

\* No invocation is in flight.
Idle == \A k \in DOMAIN invs : invs[k].pc = "done"

(***************************************************************************)
(* handleReadingModeOptimized (src/main.ts 218-267), cut at its awaits.    *)
(***************************************************************************)
\* Lines 219-246: from the command to the call of vault.read.  hasRange is
\* selection.rangeCount > 0, hasFile is view.file, domOk is whether the DOM
\* traversal of processContext runs without throwing.
StartResult(c, hasRange, range, hasFile, domOk) ==
    LET selectedText == Trim(SelectionText(range))
    IN  IF ~hasRange \/ selectedText = << >>
        THEN Ended("noSelection", "Please select text to highlight first.")
        ELSE IF ~hasFile
        THEN Ended("noFile", "No file is currently open.")
        ELSE IF ContextKey(selectedText, range) \notin DOMAIN c.context /\ ~domOk
        THEN Ended("noContext", "Could not determine text position.")
        ELSE [Ended("pending", "none") EXCEPT
                 !.pc = "reading", !.range = range,
                 !.selectedText = selectedText,
                 !.positionInfo = processContext(c, range, selectedText),
                 !.reads = 1]

Start(hasRange, range, hasFile, domOk) ==
    /\ loaded
    /\ Len(invs) < MaxToggles
    /\ IF hasFile /\ domOk THEN faults' = faults
       ELSE faults < MaxFaults /\ faults' = faults + 1
    /\ LET Started(i) ==
               /\ invs' = Append(invs, i)
               /\ caches' = IF i.pc = "reading"
                            THEN ContextCached(caches, range, i.selectedText)
                            ELSE caches
       IN  Started(StartResult(caches, hasRange, range, hasFile, domOk))
    /\ UNCHANGED <<content, loaded, sweeps, buffer, edit>>

\* The guard of line 254 dropped: whatever the toggle returned is written.
ShouldWrite_Unguarded(result) == TRUE

\* Line 254: the result is written.
ShouldWrite(result) == result.success /\ result.newContent # << >>

\* The notice of line 256 shown before vault.modify of line 255 resolves.
AfterRead_NoticeFirst(i, text, t) ==
    IF ShouldWrite(t.result)
    THEN [i EXCEPT !.pc = "writing", !.read = text,
                   !.highlighted = t.highlighted, !.result = t.result,
                   !.writes = 1, !.epoch = sweeps, !.via = t.via,
                   !.notice = IF t.result.action = "added"
                              THEN "Highlight added."
                              ELSE "Highlight removed."]
    ELSE [i EXCEPT !.pc = "done", !.read = text, !.epoch = sweeps,
                   !.via = t.via,
                   !.highlighted = t.highlighted, !.result = t.result,
                   !.outcome = "toggleError",
                   !.notice = IF t.result.error # "none"
                              THEN t.result.error
                              ELSE "Could not modify highlight."]

\* Lines 246-261: vault.read resolved with the file's text; the detection
\* and the toggle are computed and vault.modify is called, or the error is
\* shown.  epoch records how many sweeps came before the computation.
AfterRead(i, text, t) ==
    IF ShouldWrite(t.result)
    THEN [i EXCEPT !.pc = "writing", !.read = text,
                   !.highlighted = t.highlighted, !.result = t.result,
                   !.writes = 1, !.epoch = sweeps, !.via = t.via]
    ELSE [i EXCEPT !.pc = "done", !.read = text, !.epoch = sweeps,
                   !.via = t.via,
                   !.highlighted = t.highlighted, !.result = t.result,
                   !.outcome = "toggleError",
                   !.notice = IF t.result.error # "none"
                              THEN t.result.error
                              ELSE "Could not modify highlight."]

ReadResolved(k) ==
    /\ k \in DOMAIN invs
    /\ invs[k].pc = "reading"
    /\ LET Computed(t) ==
               /\ invs' = [invs EXCEPT ![k] = AfterRead(@, content, t)]
               /\ caches' = t.caches
       IN  Computed(ComputeToggle(caches, content, invs[k].selectedText,
                                  invs[k].positionInfo))
    /\ UNCHANGED <<content, loaded, faults, sweeps, buffer, edit>>

\* Lines 263-266: vault.read rejected.
ReadRejected(k) ==
    /\ k \in DOMAIN invs
    /\ invs[k].pc = "reading"
    /\ faults < MaxFaults
    /\ faults' = faults + 1
    /\ invs' = [invs EXCEPT ![k] =
                   [@ EXCEPT !.pc = "done", !.outcome = "readError",
                             !.notice = "An error occurred while modifying the file."]]
    /\ UNCHANGED <<content, caches, loaded, sweeps, buffer, edit>>

\* `Highlight ${result.action}.`
SuccessNotice(action) ==
    IF action = "added" THEN "Highlight added." ELSE "Highlight removed."

\* Lines 255-258: vault.modify resolved: the file holds the new content, the
\* notice is shown and the preview is re-rendered.
WriteResolved(k) ==
    /\ k \in DOMAIN invs
    /\ invs[k].pc = "writing"
    /\ content' = invs[k].result.newContent
    /\ invs' = [invs EXCEPT ![k] =
                   [@ EXCEPT !.pc = "done", !.outcome = "written",
                             !.notice = SuccessNotice(invs[k].result.action),
                             !.rerendered = TRUE]]
    /\ UNCHANGED <<caches, loaded, faults, sweeps, buffer, edit>>

\* Lines 263-266: vault.modify rejected; the file is as it was.
WriteRejected(k) ==
    /\ k \in DOMAIN invs
    /\ invs[k].pc = "writing"
    /\ faults < MaxFaults
    /\ faults' = faults + 1
    /\ invs' = [invs EXCEPT ![k] =
                   [@ EXCEPT !.pc = "done", !.outcome = "writeError",
                             !.notice = "An error occurred while modifying the file."]]
    /\ UNCHANGED <<content, caches, loaded, sweeps, buffer, edit>>

(***************************************************************************)
(* The periodic sweep (src/main.ts 178-183) and onunload (452-457).        *)
(***************************************************************************)
\* The detection cache is left out of the clearing.
ClearCaches_KeepDetection ==
    [EmptyCaches EXCEPT !.detection = caches.detection]

\* RegexCache.clearCache, ContextProcessor.clearCache and
\* HighlightDetector.clearCache, called together.
ClearCaches == EmptyCaches

\* A sweep of empty caches changes nothing and is left to stuttering.
Sweep ==
    /\ loaded
    /\ sweeps < MaxSweeps
    /\ caches # EmptyCaches
    /\ sweeps' = sweeps + 1
    /\ caches' = ClearCaches
    /\ UNCHANGED <<content, loaded, invs, faults, buffer, edit>>

onunload ==
    /\ loaded
    /\ loaded' = FALSE
    /\ caches' = ClearCaches
    /\ UNCHANGED <<content, invs, faults, sweeps, buffer, edit>>

(***************************************************************************)
(* A session of rendered-mode toggles made one after the other.            *)
(***************************************************************************)
Next ==
    \/ \E r \in Ranges, hasFile \in BOOLEAN, domOk \in BOOLEAN :
           Idle /\ Start(TRUE, r, hasFile, domOk)
    \/ Idle /\ Start(FALSE, NoRange, TRUE, TRUE)
    \/ \E k \in 1..MaxToggles : ReadResolved(k)
    \/ \E k \in 1..MaxToggles : ReadRejected(k)
    \/ \E k \in 1..MaxToggles : WriteResolved(k)
    \/ \E k \in 1..MaxToggles : WriteRejected(k)
    \/ Sweep

Spec == Init /\ [][Next]_vars

(***************************************************************************)
(* The editor of the buffer mode: positions are a line and a column.       *)
(***************************************************************************)
\* editor.getCursor: the position of an offset of the buffer.
PosAt(buf, offset) ==
    LET Last(lines) == [line |-> Len(lines) - 1, ch |-> Len(lines[Len(lines)])]
    IN  Last(Split(SubSeq(buf, 1, offset)))

\* The offset of a position, the column clipped to the line as the editor
\* clips it.
OffsetAt(buf, pos) ==
    LET At(lines) ==
            Len(Join(SubSeq(lines, 1, pos.line)))
                + (IF pos.line > 0 THEN 1 ELSE 0)
                + (IF pos.ch > Len(lines[pos.line + 1])
                   THEN Len(lines[pos.line + 1]) ELSE pos.ch)
    IN  At(Split(buf))

\* editor.getLine(n)
getLine(buf, n) == Split(buf)[n + 1]

\* editor.setSelection(from, to) followed by editor.replaceSelection(text).
replaceSelection(buf, from, to, text) ==
    LET Put(a, b) ==
            Substring(buf, 0, IF a < b THEN a ELSE b) \o text
                \o Substring(buf, IF a < b THEN b ELSE a, Len(buf))
    IN  Put(OffsetAt(buf, from), OffsetAt(buf, to))

(***************************************************************************)
(* handleEditingModeOptimized (src/main.ts 406-441).                       *)
(***************************************************************************)
\* Math.max(0, selectionStart.ch - 2)
beforeStartPos(selectionStart) ==
    IF selectionStart.ch - 2 > 0 THEN selectionStart.ch - 2 ELSE 0

\* Math.min(line.length, selectionEnd.ch + 2)
afterEndPos(line, selectionEnd) ==
    IF Len(line) < selectionEnd.ch + 2 THEN Len(line) ELSE selectionEnd.ch + 2

\* A marker is found before the selection only: the check of the marker
\* after it is dropped.
MarkersAround_BeforeOnly(line, selectionStart, selectionEnd) ==
    Substring(line, beforeStartPos(selectionStart), selectionStart.ch)
        = <<"=", "=">>

\* Line 424: beforeMarker === '==' && afterMarker === '=='
MarkersAround(line, selectionStart, selectionEnd) ==
    /\ Substring(line, beforeStartPos(selectionStart), selectionStart.ch)
           = <<"=", "=">>
    /\ Substring(line, selectionEnd.ch, afterEndPos(line, selectionEnd))
           = <<"=", "=">>

\* Lines 408-440 with the selection, the cursors and the line read.  branch
\* names the branch taken.
EditingResult(buf, selection, selectionStart, selectionEnd, line) ==
    IF Trim(selection) = << >>
    THEN [buffer |-> buf, notice |-> "Please select text to highlight first.",
          branch |-> "blank"]
    ELSE IF MarkersAround(line, selectionStart, selectionEnd)
    THEN [buffer |->
              replaceSelection(buf,
                  [line |-> selectionStart.line,
                   ch |-> beforeStartPos(selectionStart)],
                  [line |-> selectionEnd.line,
                   ch |-> afterEndPos(line, selectionEnd)],
                  selection),
          notice |-> "Highlight removed.", branch |-> "markers"]
    ELSE IF /\ StartsWith(selection, <<"=", "=">>)
            /\ EndsWith(selection, <<"=", "=">>)
    THEN [buffer |-> replaceSelection(buf, selectionStart, selectionEnd,
                                      Slice2(selection)),
          notice |-> "Highlight removed.", branch |-> "selection"]
    ELSE [buffer |-> replaceSelection(buf, selectionStart, selectionEnd,
                                      Highlighted(selection)),
          notice |-> "Highlight added.", branch |-> "add"]

\* handleEditingModeOptimized on a buffer whose selection runs from offset
\* from to offset to: [buffer, notice].
handleEditingModeOptimized(buf, from, to) ==
    EditingResult(buf, Substring(buf, from, to), PosAt(buf, from),
                  PosAt(buf, to), getLine(buf, PosAt(buf, from).line))

\* Buffers the editor holds when the plugin is loaded.
InitBuffers ==
    { <<"=", "=", "a", "=", "=", " ", "b">>,
      <<"a", "\n", "=", "=", "b">>,
      <<"=", "=", "=", "=", "\n", "b">> }

\* toggleHighlight on a view in editing mode (lines 203-205).
EditingToggle(from, to) ==
    /\ loaded
    /\ edit.n < MaxEdits
    /\ LET Edited(r) ==
               /\ buffer' = r.buffer
               /\ edit' = [n |-> edit.n + 1, from |-> from, to |-> to,
                           before |-> buffer, after |-> r.buffer,
                           notice |-> r.notice, branch |-> r.branch]
       IN  Edited(handleEditingModeOptimized(buffer, from, to))
    /\ UNCHANGED <<content, caches, loaded, invs, faults, sweeps>>

(***************************************************************************)
(* A session of buffer-mode toggles.                                       *)
(***************************************************************************)
InitBuffer ==
    /\ content = << >>
    /\ caches = EmptyCaches
    /\ loaded = TRUE
    /\ invs = << >>
    /\ faults = 0
    /\ sweeps = 0
    /\ buffer \in InitBuffers
    /\ edit = NoEdit

NextBuffer ==
    \E from \in 0..Len(buffer) : \E to \in from..Len(buffer) :
        EditingToggle(from, to)

SpecBuffer == InitBuffer /\ [][NextBuffer]_vars

(***************************************************************************)
(* Properties of the rendered-mode toggle.                                 *)
(***************************************************************************)
\* The offsets at which s occurs in str, overlapping occurrences included.
Occurrences(str, s) ==
    { j \in 0..(Len(str) - Len(s)) : SubSeq(str, j + 1, j + Len(s)) = s }

Count(str, s) == Cardinality(Occurrences(str, s))

\* str with the n characters from offset j on replaced by rep.
Splice(str, j, n, rep) ==
    SubSeq(str, 1, j) \o rep \o SubSeq(str, j + n + 1, Len(str))

\* The invocation has read the file and computed its toggle.
HasToggled(i) ==
    /\ i.pc \in {"writing", "done"}
    /\ i.outcome \in {"pending", "written", "writeError", "toggleError"}

\* contextBefore + t + contextAfter of an invocation.
InContext(i) ==
    i.positionInfo.contextBefore \o i.selectedText
        \o i.positionInfo.contextAfter

\* The new document is the old one with one occurrence of t wrapped, or with
\* one occurrence of ==t== unwrapped, and the number of occurrences of ==t==
\* changed by one.
OneSubstitution(old, t, result) ==
    IF result.action = "added"
    THEN /\ \E j \in Occurrences(old, t) :
                result.newContent = Splice(old, j, Len(t), Highlighted(t))
         /\ Count(result.newContent, Highlighted(t))
                = Count(old, Highlighted(t)) + 1
    ELSE /\ \E j \in Occurrences(old, Highlighted(t)) :
                result.newContent = Splice(old, j, Len(Highlighted(t)), t)
         /\ Count(result.newContent, Highlighted(t))
                = Count(old, Highlighted(t)) - 1

\* C1: whenever the rendered-mode toggle returns success, the new document
\* differs from the old one in exactly one place: one occurrence of t became
\* ==t== ("added") or one occurrence of ==t== became t ("removed"), the
\* number of occurrences of ==t== changes by exactly one, and every other
\* character is unchanged.
C1_ExactlyOneSubstitution ==
    \A k \in DOMAIN invs :
        HasToggled(invs[k]) /\ invs[k].result.success
            => OneSubstitution(invs[k].read, invs[k].selectedText,
                               invs[k].result)

AmbiguityErrors ==
    {"Multiple instances found. Please select text with unique context.",
     "Could not safely remove highlight. Multiple instances found."}

\* C2: when contextBefore + t + contextAfter occurs at two or more positions
\* of the document and no line index was captured, the toggle fails with the
\* ambiguity error and nothing is written; it never picks an occurrence.
C2_AmbiguitySafety ==
    \A k \in DOMAIN invs :
        /\ HasToggled(invs[k])
        /\ invs[k].positionInfo.lineNumber = NoLine
        /\ Count(invs[k].read, InContext(invs[k])) >= 2
        => /\ ~invs[k].result.success
           /\ invs[k].result.error \in AmbiguityErrors
           /\ invs[k].writes = 0

\* The occurrence of t at offset j of str stands between two "==".
DelimitedAt(str, j, t) ==
    /\ j >= 2
    /\ SubSeq(str, j - 1, j) = <<"=", "=">>
    /\ SubSeq(str, j + Len(t) + 1, j + Len(t) + 2) = <<"=", "=">>

\* The offset of the selected text in the one occurrence of
\* contextBefore + t + contextAfter.
ContextOffset(i) ==
    Min(Occurrences(i.read, InContext(i))) + Len(i.positionInfo.contextBefore)

\* C3: when the bare text t occurs at several positions but
\* contextBefore + t + contextAfter occurs at exactly one position p, and t
\* is not delimited there, the toggle succeeds with "added" and wraps exactly
\* the occurrence at p, whatever toggles were made earlier in the session.
C3_ContextDisambiguationOnAdd ==
    \A k \in DOMAIN invs :
        /\ HasToggled(invs[k])
        /\ Count(invs[k].read, invs[k].selectedText) >= 2
        /\ Count(invs[k].read, InContext(invs[k])) = 1
        /\ ~DelimitedAt(invs[k].read, ContextOffset(invs[k]),
                        invs[k].selectedText)
        => invs[k].result
             = Success(Splice(invs[k].read, ContextOffset(invs[k]),
                              Len(invs[k].selectedText),
                              Highlighted(invs[k].selectedText)), "added")

\* Invocation k wrote its result and invocation k + 1 toggles the same
\* selection with the same context record on the written document, with no
\* sweep of the caches in between.
Paired(k) ==
    /\ k + 1 \in DOMAIN invs
    /\ invs[k].outcome = "written"
    /\ HasToggled(invs[k + 1])
    /\ invs[k + 1].selectedText = invs[k].selectedText
    /\ invs[k + 1].positionInfo = invs[k].positionInfo
    /\ invs[k + 1].epoch = invs[k].epoch
    /\ invs[k + 1].read = invs[k].result.newContent

\* C4: a second consecutive toggle in the same session, with the same
\* selected text and context record, applied to the document the first one
\* wrote, succeeds with the opposite action and restores the first document
\* character for character.
C4_IdempotentPairing ==
    \A k \in DOMAIN invs :
        Paired(k)
            => /\ invs[k + 1].result.success
               /\ invs[k + 1].result.action # invs[k].result.action
               /\ invs[k + 1].result.newContent = invs[k].read

ErrorOutcomes ==
    {"noSelection", "noFile", "noContext", "toggleError", "readError"}

\* C5: an invocation that ends in an error outcome never calls modify, and
\* the stored document is as it was before the invocation; modify is called
\* only with a successful result whose new content was computed beforehand.
C5_NoMutationOnFailure ==
    \A k \in DOMAIN invs :
        /\ invs[k].outcome \in ErrorOutcomes => invs[k].writes = 0
        /\ invs[k].writes > 0
               => /\ invs[k].result.success
                  /\ invs[k].result.newContent # Absent
                  /\ invs[k].read # Absent
        /\ invs[k].outcome = "written" /\ k = Len(invs)
               => content = invs[k].result.newContent
        /\ invs[k].outcome = "toggleError" /\ k = Len(invs)
               => content = invs[k].read

\* An invocation failed after it read the file, the file is as it was read.
C5_FailedAfterRead ==
    \E k \in DOMAIN invs :
        /\ invs[k].outcome = "toggleError"
        /\ invs[k].result.error \in AmbiguityErrors
        /\ invs[k].writes = 0
        /\ content = invs[k].read

\* C6: for non-empty t and a document with exactly one occurrence of t and
\* none of ==t==, with any context record, the toggle succeeds with "added"
\* and yields the document with that occurrence replaced by ==t==.
C6_UniqueAdd ==
    \A k \in DOMAIN invs :
        /\ HasToggled(invs[k])
        /\ invs[k].selectedText # << >>
        /\ Count(invs[k].read, invs[k].selectedText) = 1
        /\ Count(invs[k].read, Highlighted(invs[k].selectedText)) = 0
        => invs[k].result
             = Success(Splice(invs[k].read,
                              Min(Occurrences(invs[k].read,
                                              invs[k].selectedText)),
                              Len(invs[k].selectedText),
                              Highlighted(invs[k].selectedText)), "added")

\* C7: for a document with exactly one occurrence of ==t==, with any context
\* record, the toggle succeeds with "removed" and yields the document with
\* ==t== replaced by t.
C7_UniqueRemove ==
    \A k \in DOMAIN invs :
        /\ HasToggled(invs[k])
        /\ Count(invs[k].read, Highlighted(invs[k].selectedText)) = 1
        => invs[k].result
             = Success(Splice(invs[k].read,
                              Min(Occurrences(invs[k].read,
                                      Highlighted(invs[k].selectedText))),
                              Len(Highlighted(invs[k].selectedText)),
                              invs[k].selectedText), "removed")

\* The offset at which line n (from 0) of str starts.
LineStart(str, n) ==
    Len(Join(SubSeq(Split(str), 1, n))) + (IF n > 0 THEN 1 ELSE 0)

\* The rendered text node of the invocation is the whole of the source line
\* its data-line names, and the selection touches the start or the end of it.
AtBoundary(i) ==
    /\ i.range.dataLine # NoLine
    /\ i.range.dataLine < Len(Split(i.read))
    /\ Split(i.read)[i.range.dataLine + 1] = i.range.textContent
    /\ SelectionText(i.range) = i.selectedText
    /\ \/ i.range.startOffset = 0
       \/ i.range.endOffset = Len(i.range.textContent)

\* The offset in the document of the text that was selected.
SelectedOffset(i) == LineStart(i.read, i.range.dataLine) + i.range.startOffset

\* C8: when the selection lies at the very start or end of a line, so that
\* contextBefore or contextAfter is empty, the toggle succeeds and the
\* occurrence it modifies is the selected one, not another occurrence of the
\* same text elsewhere in the document.
C8_BoundarySelections ==
    \A k \in DOMAIN invs :
        HasToggled(invs[k]) /\ AtBoundary(invs[k])
            => invs[k].result
                 = Success(Splice(invs[k].read, SelectedOffset(invs[k]),
                                  Len(invs[k].selectedText),
                                  Highlighted(invs[k].selectedText)),
                           "added")

(***************************************************************************)
(* The reference toggle: the steps of the rendered-mode toggle made with   *)
(* literal substring search and literal substitution.                      *)
(***************************************************************************)
LiteralReplaceFirst(str, s, rep) ==
    IF IndexOf(str, s) < 0 THEN str
    ELSE Splice(str, IndexOf(str, s), Len(s), rep)

RECURSIVE LiteralReplaceAll(_, _, _)
LiteralReplaceAll(str, s, rep) ==
    IF IndexOf(str, s) < 0 THEN str
    ELSE SubSeq(str, 1, IndexOf(str, s)) \o rep
             \o LiteralReplaceAll(
                    SubSeq(str, IndexOf(str, s) + Len(s) + 1, Len(str)),
                    s, rep)

\* The occurrences of s in str counted from left to right without overlap.
RECURSIVE LiteralCount(_, _)
LiteralCount(str, s) ==
    IF IndexOf(str, s) < 0 THEN 0
    ELSE 1 + LiteralCount(SubSeq(str, IndexOf(str, s) + Len(s) + 1, Len(str)),
                          s)

LiteralDetected(doc, t, pi) ==
    \/ Includes(doc, pi.contextBefore \o Highlighted(t) \o pi.contextAfter)
    \/ /\ LineInRange(doc, pi)
       /\ Includes(LineAt(doc, pi), Highlighted(t))

LiteralAdd(doc, t, pi) ==
    LET bare    == pi.contextBefore \o t \o pi.contextAfter
        wrapped == pi.contextBefore \o Highlighted(t) \o pi.contextAfter
        hits    == Occurrences(doc, bare) \cup Occurrences(doc, wrapped)
    IN  IF hits # {}
        THEN IF Min(hits) \in Occurrences(doc, bare)
             THEN Success(Splice(doc, Min(hits), Len(bare), wrapped), "added")
             ELSE Success(Splice(doc, Min(hits), Len(wrapped), bare),
                          "removed")
        ELSE IF LineInRange(doc, pi) /\ Includes(LineAt(doc, pi), t)
        THEN Success(WithLine(doc, pi,
                         LiteralReplaceFirst(LineAt(doc, pi), t,
                                             Highlighted(t))), "added")
        ELSE IF LiteralCount(doc, t) = 1 /\ LiteralCount(doc, Highlighted(t)) = 0
        THEN Success(LiteralReplaceFirst(doc, t, Highlighted(t)), "added")
        ELSE Failure("Multiple instances found. Please select text with unique context.")

LiteralRemove(doc, t, pi) ==
    LET bare    == pi.contextBefore \o t \o pi.contextAfter
        wrapped == pi.contextBefore \o Highlighted(t) \o pi.contextAfter
    IN  IF Includes(doc, wrapped)
        THEN Success(LiteralReplaceAll(doc, wrapped, bare), "removed")
        ELSE IF LineInRange(doc, pi)
                /\ Includes(LineAt(doc, pi), Highlighted(t))
        THEN Success(WithLine(doc, pi,
                         LiteralReplaceFirst(LineAt(doc, pi), Highlighted(t),
                                             t)), "removed")
        ELSE IF LiteralCount(doc, Highlighted(t)) = 1
        THEN Success(LiteralReplaceFirst(doc, Highlighted(t), t), "removed")
        ELSE Failure("Could not safely remove highlight. Multiple instances found.")

LiteralToggle(doc, t, pi) ==
    IF LiteralDetected(doc, t, pi) THEN LiteralRemove(doc, t, pi)
    ELSE LiteralAdd(doc, t, pi)

\* C9: the result of the rendered-mode toggle equals the result of the
\* reference toggle that searches and substitutes literally, for selected
\* texts and contexts that hold regex metacharacters and replacement-pattern
\* characters such as "$"; checked on the first toggle of a session.
C9_LiteralMatching ==
    \A k \in DOMAIN invs :
        k = 1 /\ HasToggled(invs[k])
            => invs[k].result
                 = LiteralToggle(invs[k].read, invs[k].selectedText,
                                 invs[k].positionInfo)

(***************************************************************************)
(* Properties of the buffer-mode toggle.                                   *)
(***************************************************************************)
\* The text the last buffer-mode invocation had selected.
Selected(e) == Substring(e.before, e.from, e.to)

\* The selection lies within one line.
SingleLine(e) == ~Includes(Selected(e), <<"\n">>)

\* The offsets at which the line of the selection starts and ends.
LineFrom(e) ==
    Min({ j \in 0..e.from :
            ~Includes(SubSeq(e.before, j + 1, e.from), <<"\n">>) })

LineTo(e) ==
    Min({ j \in e.to..Len(e.before) :
            j = Len(e.before) \/ e.before[j + 1] = "\n" })

\* Case (1) of the rule: "==" stands right before and right after the
\* selection, within its line.
Enclosed(e) ==
    /\ e.from - 2 >= LineFrom(e)
    /\ SubSeq(e.before, e.from - 1, e.from) = <<"=", "=">>
    /\ e.to + 2 <= LineTo(e)
    /\ SubSeq(e.before, e.to + 1, e.to + 2) = <<"=", "=">>

\* x without its first two and its last two characters.
Inner(x) == IF Len(x) >= 4 THEN SubSeq(x, 3, Len(x) - 2) ELSE << >>

\* The buffer the three-case rule yields.
ThreeCaseRule(e) ==
    IF Enclosed(e)
    THEN Splice(e.before, e.from - 2, (e.to - e.from) + 4, Selected(e))
    ELSE IF /\ StartsWith(Selected(e), <<"=", "=">>)
            /\ EndsWith(Selected(e), <<"=", "=">>)
    THEN Splice(e.before, e.from, e.to - e.from, Inner(Selected(e)))
    ELSE Splice(e.before, e.from, e.to - e.from, Highlighted(Selected(e)))

\* C10 as it is stated: for every single-line selection [s, e) of text x the
\* buffer-mode toggle follows the three-case rule and leaves the rest of the
\* buffer unchanged.
C10_ThreeCaseRule_AnySelection ==
    edit.n > 0 /\ SingleLine(edit) /\ edit.from < edit.to
        => edit.after = ThreeCaseRule(edit) /\ buffer = edit.after

\* C10, amended: for every single-line selection whose text holds a
\* character that is not white space the buffer-mode toggle follows the
\* three-case rule and leaves the rest of the buffer unchanged; an empty or
\* white-space-only selection leaves the whole buffer unchanged.
C10_ThreeCaseRule ==
    edit.n > 0 /\ SingleLine(edit)
        => /\ buffer = edit.after
           /\ edit.after = IF Trim(Selected(edit)) # << >>
                           THEN ThreeCaseRule(edit) ELSE edit.before

\* A selection enclosed in markers was unwrapped: "a" in "==a== b".
C10_Unwrapped ==
    /\ edit.n > 0
    /\ SingleLine(edit)
    /\ Trim(Selected(edit)) # << >>
    /\ Enclosed(edit)
    /\ edit.notice = "Highlight removed."
    /\ Len(buffer) = Len(edit.before) - 4

(***************************************************************************)
(* Properties of the caches, of the scheduling and of the strategies.      *)
(***************************************************************************)
\* The detection and the toggle of an invocation computed from its range
\* with all four caches empty: [result, caches, highlighted].
Uncached(i) ==
    ComputeToggle(EmptyCaches, i.read, i.selectedText, ComputeContext(i.range))

\* C11: after any sequence of rendered-mode toggles and cache sweeps, the
\* context record, the detected highlight status and the ToggleResult of an
\* invocation equal those computed for the same document and selection with
\* all caches empty.
C11_CachingTransparent ==
    \A k \in DOMAIN invs :
        HasToggled(invs[k])
            => /\ invs[k].positionInfo = ComputeContext(invs[k].range)
               /\ invs[k].highlighted = Uncached(invs[k]).highlighted
               /\ invs[k].result = Uncached(invs[k]).result

(***************************************************************************)
(* A session in which the command may be triggered while an earlier        *)
(* invocation is suspended at an await: executeHighlightCommand (lines     *)
(* 186-193) calls toggleHighlight without awaiting it and keeps no lock.   *)
(***************************************************************************)
NextOverlap ==
    \/ \E r \in Ranges, hasFile \in BOOLEAN, domOk \in BOOLEAN :
           Start(TRUE, r, hasFile, domOk)
    \/ Start(FALSE, NoRange, TRUE, TRUE)
    \/ \E k \in 1..MaxToggles : ReadResolved(k)
    \/ \E k \in 1..MaxToggles : ReadRejected(k)
    \/ \E k \in 1..MaxToggles : WriteResolved(k)
    \/ \E k \in 1..MaxToggles : WriteRejected(k)
    \/ Sweep

SpecOverlap == Init /\ [][NextOverlap]_vars

\* The invocations that have read the file and not yet had their write
\* settled.
BetweenReadAndWrite == { k \in DOMAIN invs : invs[k].pc = "writing" }

\* C12: toggle invocations do not overlap: no invocation reads the document
\* between another invocation's read and its write, so no pending write was
\* computed from a document version that another toggle has overwritten.
C12_NoOverlap ==
    /\ Cardinality(BetweenReadAndWrite) <= 1
    /\ \A k \in BetweenReadAndWrite : content = invs[k].read

(***************************************************************************)
(* A session on documents and selections that reach the fallback           *)
(* strategies: a delimited text that occurs twice, a text that overlaps    *)
(* itself, a text of replacement-pattern characters on a known line.       *)
(***************************************************************************)
FallbackDocs ==
    { <<"=", "=", "a", "=", "=", "b", "=", "=", "a", "=", "=">>,
      <<"a", "a", "a", "\n", "b">>,
      <<"b", "\n", "$", "$">> }

FallbackRanges ==
    { Range(<<"a", "b">>, 0, 1, NoLine),
      Range(<<"b", "a", "a">>, 1, 3, NoLine),
      Range(<<"$", "$", "b">>, 0, 2, 1),
      Range(<<"b", "a", "b">>, 1, 2, 0),
      Range(<<"b", "a", "b">>, 1, 2, 2) }

InitFallback ==
    /\ content \in FallbackDocs
    /\ caches = EmptyCaches
    /\ loaded = TRUE
    /\ invs = << >>
    /\ faults = 0
    /\ sweeps = 0
    /\ buffer = << >>
    /\ edit = NoEdit

NextFallback ==
    \/ \E r \in FallbackRanges, hasFile \in BOOLEAN, domOk \in BOOLEAN :
           Idle /\ Start(TRUE, r, hasFile, domOk)
    \/ Idle /\ Start(FALSE, NoRange, TRUE, TRUE)
    \/ \E k \in 1..MaxToggles : ReadResolved(k)
    \/ \E k \in 1..MaxToggles : ReadRejected(k)
    \/ \E k \in 1..MaxToggles : WriteResolved(k)
    \/ \E k \in 1..MaxToggles : WriteRejected(k)
    \/ Sweep

SpecFallback == InitFallback /\ [][NextFallback]_vars

\* contextBefore + ==t== + contextAfter of an invocation.
InContextDelimited(i) ==
    i.positionInfo.contextBefore \o Highlighted(i.selectedText)
        \o i.positionInfo.contextAfter

\* The offset of ==t== in the one occurrence of
\* contextBefore + ==t== + contextAfter.
DelimitedOffset(i) ==
    Min(Occurrences(i.read, InContextDelimited(i)))
        + Len(i.positionInfo.contextBefore)

\* C13: when ==t== occurs two or more times, contextBefore + ==t== +
\* contextAfter occurs at exactly one position p and no line index was
\* captured, the toggle succeeds with "removed" and unwraps exactly the
\* occurrence at p, leaving the other delimited occurrences intact.
C13_ContextDisambiguationOnRemove ==
    \A k \in DOMAIN invs :
        /\ HasToggled(invs[k])
        /\ invs[k].positionInfo.lineNumber = NoLine
        /\ Count(invs[k].read, Highlighted(invs[k].selectedText)) >= 2
        /\ Count(invs[k].read, InContextDelimited(invs[k])) = 1
        => invs[k].result
             = Success(Splice(invs[k].read, DelimitedOffset(invs[k]),
                              Len(Highlighted(invs[k].selectedText)),
                              invs[k].selectedText), "removed")

\* The notices of a successful toggle.
SuccessNotices == {"Highlight added.", "Highlight removed."}

\* C14: each rendered-mode invocation performs at most one document read and
\* at most one whole-document write; the write, if any, comes after the read
\* and after the toggle result is computed; the success notice and the
\* re-render happen only after the write, and never in an invocation that
\* issued no write.
C14_IOOrdering ==
    \A k \in DOMAIN invs :
        /\ invs[k].reads <= 1
        /\ invs[k].writes <= 1
        /\ invs[k].pc = "reading" => invs[k].writes = 0
        /\ invs[k].writes = 1
               => /\ invs[k].reads = 1
                  /\ HasToggled(invs[k])
                  /\ invs[k].result.success
                  /\ invs[k].result.newContent # Absent
        /\ invs[k].rerendered \/ invs[k].notice \in SuccessNotices
               => /\ invs[k].writes = 1
                  /\ invs[k].outcome = "written"
                  /\ invs[k].rerendered
                  /\ invs[k].notice = SuccessNotice(invs[k].result.action)

\* An invocation read, wrote, showed its notice and asked for the re-render,
\* and another one read and ended without a write.
C14_WrittenAndNotWritten ==
    \E j, k \in DOMAIN invs :
        /\ invs[j].outcome = "written"
        /\ invs[j].reads = 1 /\ invs[j].writes = 1 /\ invs[j].rerendered
        /\ invs[k].outcome = "toggleError"
        /\ invs[k].reads = 1 /\ invs[k].writes = 0 /\ ~invs[k].rerendered

\* The form the toggle of the invocation replaces, and the form it puts.
TargetForm(i) ==
    IF i.result.action = "added" THEN i.selectedText
    ELSE Highlighted(i.selectedText)

PutForm(i) ==
    IF i.result.action = "added" THEN Highlighted(i.selectedText)
    ELSE i.selectedText

\* Line n (from 0) of the new document is line n of the old one with the
\* first occurrence of the target form replaced, and no other line changed.
OnlyLineChanged(i, old, new, n) ==
    /\ n >= 0 /\ n < Len(old)
    /\ Len(new) = Len(old)
    /\ \A j \in 1..Len(old) : j # n + 1 => new[j] = old[j]
    /\ Includes(old[n + 1], TargetForm(i))
    /\ new[n + 1] = Splice(old[n + 1], IndexOf(old[n + 1], TargetForm(i)),
                           Len(TargetForm(i)), PutForm(i))

\* C15: whenever a toggle succeeds through the line-index strategy, the line
\* index is in range, every other line and the number of lines are
\* unchanged, and the line differs only by the first occurrence in it of the
\* target form being replaced (t by ==t==, or ==t== by t).
C15_LineFallbackFrame ==
    \A k \in DOMAIN invs :
        HasToggled(invs[k]) /\ invs[k].result.success /\ invs[k].via = "line"
            => OnlyLineChanged(invs[k], Split(invs[k].read),
                               Split(invs[k].result.newContent),
                               invs[k].positionInfo.lineNumber)

\* C16: a toggle that succeeds through the last-resort global strategy does
\* so only when the document holds exactly one occurrence of the bare text t,
\* overlapping occurrences counted, and none of ==t== ("added"), or exactly
\* one occurrence of ==t== ("removed"); with any other counts the global
\* strategy fails and nothing is written.
C16_GlobalFallbackConservative ==
    \A k \in DOMAIN invs :
        HasToggled(invs[k]) /\ invs[k].via = "global"
            => IF invs[k].result.success
               THEN \/ /\ invs[k].result.action = "added"
                       /\ Count(invs[k].read, invs[k].selectedText) = 1
                       /\ Count(invs[k].read,
                                Highlighted(invs[k].selectedText)) = 0
                    \/ /\ invs[k].result.action = "removed"
                       /\ Count(invs[k].read,
                                Highlighted(invs[k].selectedText)) = 1
               ELSE invs[k].writes = 0

(***************************************************************************)
(* A session of any length under the periodic sweep: the timer of lines    *)
(* 179-183 fires every five minutes for as long as the plugin is loaded,   *)
(* and the plugin may be unloaded.                                         *)
(***************************************************************************)
\* The callback of the interval, however often it has run: the count of the
\* sweeps stays at MaxSweeps once it is reached.
PeriodicSweep ==
    /\ loaded
    /\ sweeps' = IF sweeps < MaxSweeps THEN sweeps + 1 ELSE sweeps
    /\ caches' = ClearCaches
    /\ UNCHANGED <<content, loaded, invs, faults, buffer, edit>>

SweepDocs == { <<"b", "a", "b">>, <<"a", "b", "\n", "a">> }

SweepRanges ==
    { Range(<<"a">>, 0, 1, NoLine), Range(<<"b", "a", "b">>, 1, 2, NoLine) }

InitSweep ==
    /\ content \in SweepDocs
    /\ caches = EmptyCaches
    /\ loaded = TRUE
    /\ invs = << >>
    /\ faults = 0
    /\ sweeps = 0
    /\ buffer = << >>
    /\ edit = NoEdit

NextSweep ==
    \/ \E r \in SweepRanges, hasFile \in BOOLEAN, domOk \in BOOLEAN :
           Idle /\ Start(TRUE, r, hasFile, domOk)
    \/ \E k \in 1..MaxToggles : ReadResolved(k)
    \/ \E k \in 1..MaxToggles : ReadRejected(k)
    \/ \E k \in 1..MaxToggles : WriteResolved(k)
    \/ \E k \in 1..MaxToggles : WriteRejected(k)
    \/ PeriodicSweep
    \/ onunload

SpecSweep == InitSweep /\ [][NextSweep]_vars /\ WF_vars(PeriodicSweep)

\* Every sweep and the unload leave the four caches empty.
SweptEmpty == [][PeriodicSweep \/ onunload => caches' = EmptyCaches]_vars

\* C17 as it is stated: every periodic sweep and the unload leave all four
\* caches empty, and under fairness of the periodic sweep every entry
\* inserted into any cache is eventually removed.
C17_CacheEviction_AnyEntry ==
    /\ SweptEmpty
    /\ (caches # EmptyCaches) ~> (caches = EmptyCaches)

\* C17, amended: every periodic sweep and the unload leave all four caches
\* empty, and under fairness of the periodic sweep every entry that is in a
\* cache while the plugin is loaded is eventually removed.
C17_CacheEviction ==
    /\ SweptEmpty
    /\ (loaded /\ caches # EmptyCaches) ~> (caches = EmptyCaches)

\* A toggle has filled the caches and a sweep has emptied them, the plugin
\* still loaded.
C17_SweptAfterToggle ==
    /\ loaded
    /\ sweeps > 0
    /\ caches = EmptyCaches
    /\ \E k \in DOMAIN invs : HasToggled(invs[k]) /\ invs[k].pc = "done"

\* C18: for every selection, one that spans several lines included, the
\* "surrounded by markers" branch of the buffer-mode toggle is taken only if
\* the two characters right before the selection start and the two right
\* after the selection end, in the line that holds the selection end, are
\* both "==", and the region replaced in that branch is exactly the selection
\* extended by two characters on each side.
C18_MarkerInspection ==
    edit.n > 0 /\ edit.branch = "markers"
        => /\ Enclosed(edit)
           /\ edit.after = Splice(edit.before, edit.from - 2,
                                  (edit.to - edit.from) + 4, Selected(edit))

\* C19: in rendered mode no successful toggle with action "added" wraps an
\* occurrence of the selected text that is already delimited: the new content
\* is never the content read with "==" put around an occurrence that stood
\* between "==" and "==", which would leave ====t==== in the document.
C19_NoNestedDelimiters ==
    \A k \in DOMAIN invs :
        /\ HasToggled(invs[k])
        /\ invs[k].result.success
        /\ invs[k].result.action = "added"
        => \A j \in Occurrences(invs[k].read, invs[k].selectedText) :
               DelimitedAt(invs[k].read, j, invs[k].selectedText)
                   => invs[k].result.newContent
                        # Splice(invs[k].read, j, Len(invs[k].selectedText),
                                 Highlighted(invs[k].selectedText))

=============================================================================
